---- MODULE Spec2Model ----
(***************************************************************************)
(* Model of fix_ente_metadata/__main__.py: the sidecar resolver, the       *)
(* timestamp extractor, the two metadata writers, the directory walker     *)
(* and the script entry point.                                             *)
(*                                                                         *)
(* Python integers are unbounded while TLC integers are 32 bits wide, so   *)
(* an epoch value is kept as a pair [hi, lo] standing for hi*Base + lo     *)
(* with 0 <= lo < Base (floor representation, the sign lives in hi).       *)
(* Text is a sequence of one-character strings, so that int(), str.replace *)
(* and fromisoformat are computed character by character.                  *)
(***************************************************************************)
EXTENDS Integers, Sequences, FiniteSets, TLC

Base == 10^8

Big(h, l) == [hi |-> h, lo |-> l]

BigZero == Big(0, 0)

BigIsZero(n) == n.hi = 0 /\ n.lo = 0

BigLt(a, b) == a.hi < b.hi \/ (a.hi = b.hi /\ a.lo < b.lo)

BigNeg(n) == IF n.lo = 0 THEN Big(0 - n.hi, 0) ELSE Big(0 - n.hi - 1, Base - n.lo)

\* n*10 + d for a non-negative n
BigShiftDigit(n, d) == Big(n.hi * 10 + ((n.lo * 10 + d) \div Base), (n.lo * 10 + d) % Base)

\* floor(n / 1000) and n mod 1000 for a non-negative n
BigDiv1000(n) == Big(n.hi \div 1000, (n.hi % 1000) * (Base \div 1000) + (n.lo \div 1000))

BigMod1000(n) == n.lo % 1000

----------------------------------------------------------------------------
(* JSON values as json.load returns them *)

None == [t |-> "None"]

JInt(n) == [t |-> "int", n |-> n]

JBool(b) == [t |-> "bool", b |-> b]

JStr(s) == [t |-> "str", s |-> s]

JNull == [t |-> "null"]

\* a mapping value; has = whether it holds the key "timestamp", ts = that entry
JDict(has, ts) == [t |-> "dict", has |-> has, ts |-> ts]

Absent == [t |-> "absent"]

possible_keys == <<"creationTime", "photoTakenTime", "dateTaken", "timestamp">>

Keys == {possible_keys[i] : i \in 1..Len(possible_keys)}

----------------------------------------------------------------------------
(* int(val) on text: an optional sign followed by decimal digits *)

Digits == {"0", "1", "2", "3", "4", "5", "6", "7", "8", "9"}

DigitVal(c) == CASE c = "0" -> 0 [] c = "1" -> 1 [] c = "2" -> 2 [] c = "3" -> 3
                 [] c = "4" -> 4 [] c = "5" -> 5 [] c = "6" -> 6 [] c = "7" -> 7
                 [] c = "8" -> 8 [] c = "9" -> 9

RECURSIVE DigitsValue(_, _)
DigitsValue(s, acc) ==
    IF s = <<>> THEN acc ELSE DigitsValue(Tail(s), BigShiftDigit(acc, DigitVal(Head(s))))

AllDigits(s) == s # <<>> /\ \A i \in 1..Len(s) : s[i] \in Digits

\* [ok |-> FALSE] stands for ValueError
IntOfStr(s) ==
    IF AllDigits(s) THEN [ok |-> TRUE, n |-> DigitsValue(s, BigZero)]
    ELSE IF s # <<>> /\ Head(s) = "-" /\ AllDigits(Tail(s))
         THEN [ok |-> TRUE, n |-> BigNeg(DigitsValue(Tail(s), BigZero))]
    ELSE IF s # <<>> /\ Head(s) = "+" /\ AllDigits(Tail(s))
         THEN [ok |-> TRUE, n |-> DigitsValue(Tail(s), BigZero)]
    ELSE [ok |-> FALSE]

(* val.replace("Z", "+00:00") *)
RECURSIVE ReplaceZ(_)
ReplaceZ(s) ==
    IF s = <<>> THEN <<>>
    ELSE IF Head(s) = "Z" THEN <<"+", "0", "0", ":", "0", "0">> \o ReplaceZ(Tail(s))
    ELSE <<Head(s)>> \o ReplaceZ(Tail(s))

\* the shapes YYYY-MM-DDTHH:MM:SS and YYYY-MM-DDTHH:MM:SS+HH:MM
IsoDateTimeShape(s) ==
    /\ Len(s) >= 19
    /\ \A i \in {1, 2, 3, 4, 6, 7, 9, 10, 12, 13, 15, 16, 18, 19} : s[i] \in Digits
    /\ s[5] = "-" /\ s[8] = "-" /\ s[11] = "T" /\ s[14] = ":" /\ s[17] = ":"

IsoOffsetShape(s) ==
    /\ Len(s) = 25
    /\ s[20] \in {"+", "-"}
    /\ \A i \in {21, 22, 24, 25} : s[i] \in Digits
    /\ s[23] = ":"

\* datetime.fromisoformat: a date-time, timezone-aware when an offset follows
FromIsoFormat(s) ==
    IF IsoDateTimeShape(s) /\ Len(s) = 19
    THEN [ok |-> TRUE, dt |-> [kind |-> "iso", aware |-> FALSE, text |-> s]]
    ELSE IF IsoDateTimeShape(s) /\ IsoOffsetShape(s)
    THEN [ok |-> TRUE, dt |-> [kind |-> "iso", aware |-> TRUE, text |-> s]]
    ELSE [ok |-> FALSE]

----------------------------------------------------------------------------
(* datetime.fromtimestamp: years 1..9999 only, ValueError outside *)

MinEpoch == Big(-622, 64403200)

MaxEpoch == Big(2534, 2300799)

Raise == [kind |-> "raise"]

NoneResult == [kind |-> "none"]

FromTimestamp(secs, ms) ==
    IF BigLt(secs, MinEpoch) \/ BigLt(MaxEpoch, secs) THEN Raise
    ELSE [kind |-> "epoch", secs |-> secs, ms |-> ms]

----------------------------------------------------------------------------
(* parse_timestamp *)

\* a parsed sidecar: a mapping over the candidate keys (other keys are never
\* read), a list of strings, or a scalar (null, number, true, false)
JMap(m) == [kind |-> "map", m |-> m]

JList(items) == [kind |-> "list", items |-> items]

JScalar == [kind |-> "scalar"]

\* `key in json_data`; TypeError for a scalar
KeyInRaises(json_data) == json_data.kind = "scalar"

KeyIn(key, json_data) ==
    IF json_data.kind = "map" THEN json_data.m[key] # Absent
    ELSE key \in json_data.items

\* `json_data[key]`; TypeError for a list
GetItemRaises(json_data) == json_data.kind = "list"

\* if isinstance(val, dict) and "timestamp" in val: val = val["timestamp"]
Unwrap(val) == IF val.t = "dict" /\ val.has THEN val.ts ELSE val

Threshold == Big(1000, 0)

Truthy(timestamp) == timestamp # None /\ ~BigIsZero(timestamp)

\* the string / number branches applied to one (unwrapped) value
Normalise(val, timestamp) ==
    IF val.t = "str"
    THEN IF IntOfStr(val.s).ok
         THEN [ret |-> FALSE, timestamp |-> IntOfStr(val.s).n]
         ELSE IF FromIsoFormat(ReplaceZ(val.s)).ok
              THEN [ret |-> TRUE, dt |-> FromIsoFormat(ReplaceZ(val.s)).dt]
              ELSE [ret |-> FALSE, timestamp |-> timestamp]
    ELSE IF val.t = "int" THEN [ret |-> FALSE, timestamp |-> val.n]
    ELSE IF val.t = "bool"
         THEN [ret |-> FALSE, timestamp |-> IF val.b THEN Big(0, 1) ELSE BigZero]
    ELSE [ret |-> FALSE, timestamp |-> timestamp]

ShouldBreak_always(timestamp) == TRUE

\* if timestamp: break
ShouldBreak(timestamp) == Truthy(timestamp)

RECURSIVE LoopKeys(_, _, _)
LoopKeys(json_data, i, timestamp) ==
    IF i > Len(possible_keys) THEN [exit |-> "end", timestamp |-> timestamp]
    ELSE IF KeyInRaises(json_data) THEN [exit |-> "raise"]
    ELSE IF ~KeyIn(possible_keys[i], json_data) THEN LoopKeys(json_data, i + 1, timestamp)
    ELSE IF GetItemRaises(json_data) THEN [exit |-> "raise"]
    ELSE LET r == Normalise(Unwrap(json_data.m[possible_keys[i]]), timestamp)
         IN  IF r.ret THEN [exit |-> "return", dt |-> r.dt]
             ELSE IF ShouldBreak(r.timestamp) THEN [exit |-> "end", timestamp |-> r.timestamp]
             ELSE LoopKeys(json_data, i + 1, r.timestamp)

IsMillis_ge(timestamp) == ~BigLt(timestamp, Threshold)

\* if timestamp > 100000000000
IsMillis(timestamp) == BigLt(Threshold, timestamp)

\* the scale rule followed by datetime.fromtimestamp
ConvertEpoch(timestamp) ==
    IF IsMillis(timestamp)
    THEN FromTimestamp(BigDiv1000(timestamp), BigMod1000(timestamp))
    ELSE FromTimestamp(timestamp, 0)

parse_timestamp(json_data) ==
    LET r == LoopKeys(json_data, 1, None)
    IN  IF r.exit = "raise" THEN Raise
        ELSE IF r.exit = "return" THEN r.dt
        ELSE IF Truthy(r.timestamp) THEN ConvertEpoch(r.timestamp)
        ELSE NoneResult

----------------------------------------------------------------------------
(* sample sidecar values *)

T_1700000000 == <<"1", "7", "0", "0", "0", "0", "0", "0", "0", "0">>

T_iso == <<"2", "0", "2", "3", "-", "0", "5", "-", "0", "1", "T",
           "1", "0", ":", "0", "0", ":", "0", "0", "Z">>

ParseValues ==
    { JInt(BigZero), JInt(Big(17, 0)), JInt(Threshold), JInt(Big(1000, 1)),
      JInt(Big(10000000, 0)),
      JStr(T_1700000000), JStr(<<"0">>), JStr(<<"a", "b">>), JStr(<<"-", "5">>),
      JStr(T_iso), JNull, JBool(TRUE),
      JDict(FALSE, JNull), JDict(TRUE, JInt(Big(17000, 0))),
      JDict(TRUE, JStr(T_1700000000)) }

ParseInputs ==
    {JMap(m) : m \in [Keys -> ParseValues \cup {Absent}]}
      \cup {JScalar, JList({}), JList({"timestamp"})}

----------------------------------------------------------------------------
(* paths: a directory and a file name split at its dots, "a.mp4" = <<"a", "mp4">> *)

Path(d, n) == [dir |-> d, name |-> n]

AllEmpty(s) == \A i \in 1..Len(s) : s[i] = ""

\* os.path.splitext: the last dot starts the extension unless only dots precede it
SplitExt(name) ==
    IF Len(name) >= 2 /\ ~AllEmpty(SubSeq(name, 1, Len(name) - 1))
    THEN [root |-> SubSeq(name, 1, Len(name) - 1), ext |-> <<name[Len(name)]>>]
    ELSE [root |-> name, ext |-> <<>>]

\* str.lower on one dot-separated component
Lower(c) == CASE c = "JPG" -> "jpg" [] c = "MP4" -> "mp4" [] c = "MOV" -> "mov" [] OTHER -> c

LowerExt(ext) == [i \in 1..Len(ext) |-> Lower(ext[i])]

image_exts == {<<"jpg">>, <<"jpeg">>, <<"tiff">>, <<"webp">>}

video_exts == {<<"mp4">>, <<"mov">>, <<"m4v">>, <<"avi">>, <<"mkv">>}

\* file_path + ".temp" + os.path.splitext(file_path)[1]
TempPath(p) == Path(p.dir, (p.name \o <<"temp">>) \o SplitExt(p.name).ext)

----------------------------------------------------------------------------
(* the tree *)

MaxFiles == 4

RootDir == "."

SubDirs == {"s"}

A_mp4 == Path(RootDir, <<"a", "mp4">>)

A_temp == Path(RootDir, <<"a", "mp4", "temp", "mp4">>)

A_mp4_json == Path(RootDir, <<"a", "mp4", "json">>)

B_jpg == Path(RootDir, <<"b", "JPG">>)

B_jpg_json == Path(RootDir, <<"b", "JPG", "json">>)

N_txt == Path(RootDir, <<"n", "txt">>)

Dot_jpg == Path(RootDir, <<"", "jpg">>)

C_mov == Path("s", <<"c", "mov">>)

A_temp_json == Path(RootDir, <<"a", "mp4", "temp", "json">>)

SidecarPaths == {A_mp4_json, A_temp_json, B_jpg_json}

Universe == {A_mp4, A_temp, B_jpg, N_txt, Dot_jpg, C_mov} \cup SidecarPaths

AllPaths == Universe \cup {TempPath(p) : p \in {A_mp4, A_temp, B_jpg, C_mov}}

Missing == [c |-> "missing"]

Partial == [c |-> "partial"]

Malformed == [kind |-> "malformed"]

OnlyKey(k, v) == JMap([x \in Keys |-> IF x = k THEN v ELSE Absent])

\* sidecar contents the tree is drawn from
WalkSidecars ==
    { Malformed, JScalar, JMap([x \in Keys |-> Absent]),
      OnlyKey("creationTime", JInt(BigZero)),
      OnlyKey("timestamp", JInt(Big(17, 0))),
      OnlyKey("photoTakenTime", JInt(Big(10000000, 0))) }

FileContent(p) == [c |-> "file", data |-> p, meta |-> [tag |-> "orig"]]

Trees ==
    UNION { { [p \in AllPaths |->
                 IF p \notin S THEN Missing
                 ELSE IF p \in SidecarPaths THEN [c |-> "json", data |-> sc[p]]
                 ELSE FileContent(p)] :
              sc \in [S \cap SidecarPaths -> WalkSidecars] } :
            S \in {T \in SUBSET Universe : Cardinality(T) <= MaxFiles} }

EmptyTree == [p \in AllPaths |-> Missing]

\* os.path.exists; a path outside AllPaths is never created
Exists(tree, p) == p \in DOMAIN tree /\ tree[p] # Missing

----------------------------------------------------------------------------
VARIABLES
    env,           \* what the script finds: piexif importable, ffmpeg on PATH, target_dir exists
    pc,            \* "start", "walking", "done" (summary printed), "exited" (left before the walk)
    exit_status,   \* process exit status once the script has ended, -1 while it runs
    fs,            \* path -> content
    fs0,           \* the tree as it was when the script started
    dirs,          \* sub-directories os.walk has not entered yet
    files,         \* names of the current directory's listing not yet visited
    cur,           \* directory being walked
    stats,         \* the five counters
    failed_files,  \* (path, reason) pairs
    log,           \* outcome recorded for each visited media file, in order
    calls,         \* writer invocations, in order
    json_data,     \* argument of a stand-alone parse_timestamp call
    parsed         \* its result, Pending before the call

vars == <<env, pc, exit_status, fs, fs0, dirs, files, cur, stats, failed_files,
          log, calls, json_data, parsed>>

walkVars == <<env, pc, exit_status, fs, fs0, dirs, files, cur, stats, failed_files,
              log, calls>>

Pending == [kind |-> "pending"]

----------------------------------------------------------------------------
(* get_metadata_file *)

get_metadata_file(tree, file_path) ==
    LET json_path_1 == Path(file_path.dir, Append(file_path.name, "json"))
        json_path_2 == Path(file_path.dir, Append(SplitExt(file_path.name).root, "json"))
    IN  IF Exists(tree, json_path_1) THEN json_path_1
        ELSE IF Exists(tree, json_path_2) THEN json_path_2
        ELSE None

----------------------------------------------------------------------------
(* the writers; b names what the library / the external tool does this time *)

ImageBehaviours == {"ok", "raises"}

VideoBehaviours ==
    { "run_raises",            \* subprocess.run raises
      "ok",                    \* exit 0, os.replace succeeds
      "replace_raises",        \* exit 0, os.replace raises
      "nonzero",               \* nonzero exit, nothing written to the temporary path
      "nonzero_partial",       \* nonzero exit after output was opened
      "nonzero_undecodable",   \* as "nonzero", stderr is not UTF-8
      "nonzero_partial_undecodable" }

update_image_exif(tree, file_path, dt, b) ==
    IF b = "ok" /\ Exists(tree, file_path)
    THEN [ok |-> TRUE,
          fs |-> [tree EXCEPT ![file_path] = [@ EXCEPT !.meta = [tag |-> "exif", dt |-> dt]]]]
    ELSE [ok |-> FALSE, fs |-> tree]

\* whether the tool can behave as b on this input
VideoFeasible(tree, file_path, b) ==
    b \in {"ok", "replace_raises", "nonzero_partial", "nonzero_partial_undecodable"}
        => Exists(tree, file_path)

update_video_metadata(tree, file_path, dt, b) ==
    LET temp_file == TempPath(file_path)
        ran == IF b \in {"ok", "replace_raises"}
               THEN [tree EXCEPT ![temp_file] =
                        [tree[file_path] EXCEPT !.meta = [tag |-> "creation_time", dt |-> dt]]]
               ELSE IF b \in {"nonzero_partial", "nonzero_partial_undecodable"}
               THEN [tree EXCEPT ![temp_file] = Partial]
               ELSE tree
    IN  IF b = "ok"
        THEN [ok |-> TRUE, fs |-> [ran EXCEPT ![file_path] = ran[temp_file],
                                              ![temp_file] = Missing]]
        ELSE IF b \in {"nonzero", "nonzero_partial"}
        THEN [ok |-> FALSE, fs |-> [ran EXCEPT ![temp_file] = Missing]]
        ELSE [ok |-> FALSE, fs |-> ran]

----------------------------------------------------------------------------
(* process_directory, one loop iteration per step *)

ZeroStats == [processed |-> 0, updated |-> 0, failed |-> 0,
              skipped_no_json |-> 0, skipped_no_timestamp |-> 0]

IsMediaExt_images(ext) == ext \in image_exts

\* if ext in image_exts or ext in video_exts
IsMediaExt(ext) == ext \in image_exts \/ ext \in video_exts

Count_nofail(st, outcome) ==
    IF outcome = "failed" THEN st ELSE [st EXCEPT ![outcome] = @ + 1]

\* stats[outcome] += 1
Count(st, outcome) == [st EXCEPT ![outcome] = @ + 1]

PcAfter_propagate(outcome) == IF outcome = "failed" THEN "crashed" ELSE "walking"

\* every per-file outcome falls through to the next iteration of the loop
PcAfter(outcome) == "walking"

Listing(tree, d) == {p.name : p \in {q \in AllPaths : q.dir = d /\ Exists(tree, q)}}

\* whether the iteration gets as far as calling a writer
ReachesWriter(tree, file_path) ==
    LET json_path == get_metadata_file(tree, file_path)
    IN  /\ json_path # None
        /\ tree[json_path].data # Malformed
        /\ parse_timestamp(tree[json_path].data) \notin {Raise, NoneResult}

\* the behaviours the writer called for this file can show
Behaviours(tree, file_path, ext) ==
    IF ~ReachesWriter(tree, file_path) THEN {"ok"}
    ELSE IF ext \in image_exts THEN ImageBehaviours
    ELSE {b \in VideoBehaviours : VideoFeasible(tree, file_path, b)}

\* what one iteration does with a recognised file: the outcome, the tree and
\* the writer call made, if any
Iteration(tree, file_path, ext, b) ==
    LET json_path == get_metadata_file(tree, file_path)
        data == tree[json_path].data
        dt == parse_timestamp(data)
        w == IF ext \in image_exts THEN update_image_exif(tree, file_path, dt, b)
             ELSE update_video_metadata(tree, file_path, dt, b)
        call == [writer |-> IF ext \in image_exts THEN "image" ELSE "video",
                 path |-> file_path, dt |-> dt, ok |-> w.ok,
                 file_before |-> tree[file_path], file_after |-> w.fs[file_path],
                 temp_after |-> w.fs[TempPath(file_path)]]
    IN  IF json_path = None
        THEN [outcome |-> "skipped_no_json", fs |-> tree, calls |-> <<>>, reason |-> ""]
        ELSE IF data = Malformed
        THEN [outcome |-> "failed", fs |-> tree, calls |-> <<>>, reason |-> "json.load"]
        ELSE IF dt = Raise
        THEN [outcome |-> "failed", fs |-> tree, calls |-> <<>>, reason |-> "parse_timestamp"]
        ELSE IF dt = NoneResult
        THEN [outcome |-> "skipped_no_timestamp", fs |-> tree, calls |-> <<>>, reason |-> ""]
        ELSE IF w.ok
        THEN [outcome |-> "updated", fs |-> w.fs, calls |-> <<call>>, reason |-> ""]
        ELSE [outcome |-> "failed", fs |-> w.fs, calls |-> <<call>>,
              reason |-> "Update failed (check logs)"]

ProcessFile ==
    /\ pc = "walking"
    /\ \E file \in files :
         LET file_path == Path(cur, file)
             ext == LowerExt(SplitExt(file).ext)
         IN  /\ files' = files \ {file}
             /\ IF IsMediaExt(ext)
                THEN \E b \in Behaviours(fs, file_path, ext) :
                     \E it \in {Iteration(fs, file_path, ext, b)} :
                        /\ stats' = Count(Count(stats, "processed"), it.outcome)
                        /\ fs' = it.fs
                        /\ calls' = calls \o it.calls
                        /\ log' = Append(log, <<file_path, it.outcome>>)
                        /\ failed_files' =
                              IF it.outcome = "failed"
                              THEN Append(failed_files, <<file_path, it.reason>>)
                              ELSE failed_files
                        /\ pc' = PcAfter(it.outcome)
                ELSE UNCHANGED <<stats, fs, calls, log, failed_files, pc>>
    /\ UNCHANGED <<env, exit_status, fs0, dirs, cur, json_data, parsed>>

\* os.walk moves on to a sub-directory and lists it
EnterDir ==
    /\ pc = "walking"
    /\ files = {}
    /\ \E d \in dirs :
         /\ cur' = d
         /\ dirs' = dirs \ {d}
         /\ files' = Listing(fs, d)
    /\ UNCHANGED <<env, pc, exit_status, fs, fs0, stats, failed_files, log, calls,
                   json_data, parsed>>

\* the summary and the failure ledger are printed, the script ends
Summary ==
    /\ pc = "walking"
    /\ files = {}
    /\ dirs = {}
    /\ pc' = "done"
    /\ exit_status' = 0
    /\ UNCHANGED <<env, fs, fs0, dirs, files, cur, stats, failed_files, log, calls,
                   json_data, parsed>>

----------------------------------------------------------------------------
(* the script: import check, ffmpeg check, target directory check *)

Main ==
    /\ pc = "start"
    /\ IF ~env.piexif \/ ~env.ffmpeg
       THEN /\ pc' = "exited"
            /\ exit_status' = 1
            /\ UNCHANGED <<cur, files, dirs>>
       ELSE IF ~env.dir
       THEN /\ pc' = "exited"
            /\ exit_status' = 0
            /\ UNCHANGED <<cur, files, dirs>>
       ELSE /\ pc' = "walking"
            /\ cur' = RootDir
            /\ files' = Listing(fs, RootDir)
            /\ dirs' = SubDirs
            /\ UNCHANGED exit_status
    /\ UNCHANGED <<env, fs, fs0, stats, failed_files, log, calls, json_data, parsed>>

Init ==
    /\ env \in [piexif : BOOLEAN, ffmpeg : BOOLEAN, dir : BOOLEAN]
    /\ pc = "start"
    /\ exit_status = -1
    /\ fs \in IF env.dir THEN Trees ELSE {EmptyTree}
    /\ fs0 = fs
    /\ dirs = {}
    /\ files = {}
    /\ cur = RootDir
    /\ stats = ZeroStats
    /\ failed_files = <<>>
    /\ log = <<>>
    /\ calls = <<>>
    /\ json_data = JScalar
    /\ parsed = Pending

Next == Main \/ ProcessFile \/ EnterDir \/ Summary

Spec == Init /\ [][Next]_vars

\* the runs examined for termination: the three media files of the root
\* directory; a.mp4's sidecar is absent or leads to each kind of outcome,
\* b.JPG's sidecar is absent or holds a timestamp
GoodSidecar == OnlyKey("timestamp", JInt(Big(17, 0)))

LiveSidecars ==
    {Malformed, JScalar, OnlyKey("creationTime", JInt(BigZero)), GoodSidecar}

LiveTrees ==
    { [p \in AllPaths |->
         IF p \in {A_mp4, A_temp, B_jpg} THEN FileContent(p)
         ELSE IF p = A_mp4_json /\ p \in S THEN [c |-> "json", data |-> sc]
         ELSE IF p = B_jpg_json /\ p \in S THEN [c |-> "json", data |-> GoodSidecar]
         ELSE Missing] :
      sc \in LiveSidecars, S \in SUBSET {A_mp4_json, B_jpg_json} }

FairInit ==
    /\ env = [piexif |-> TRUE, ffmpeg |-> TRUE, dir |-> TRUE]
    /\ pc = "start"
    /\ exit_status = -1
    /\ fs \in LiveTrees
    /\ fs0 = fs
    /\ dirs = {}
    /\ files = {}
    /\ cur = RootDir
    /\ stats = ZeroStats
    /\ failed_files = <<>>
    /\ log = <<>>
    /\ calls = <<>>
    /\ json_data = JScalar
    /\ parsed = Pending

\* a sequential program keeps running until it ends
FairSpec == FairInit /\ [][Next]_vars /\ WF_vars(Next)

----------------------------------------------------------------------------
(* parse_timestamp on its own *)

Parse ==
    /\ parsed = Pending
    /\ parsed' = parse_timestamp(json_data)
    /\ UNCHANGED <<json_data, walkVars>>

ParseInit ==
    /\ json_data \in ParseInputs
    /\ parsed = Pending
    /\ env = [piexif |-> TRUE, ffmpeg |-> TRUE, dir |-> TRUE]
    /\ pc = "start"
    /\ exit_status = -1
    /\ fs = EmptyTree
    /\ fs0 = fs
    /\ dirs = {}
    /\ files = {}
    /\ cur = RootDir
    /\ stats = ZeroStats
    /\ failed_files = <<>>
    /\ log = <<>>
    /\ calls = <<>>

SpecParse == ParseInit /\ [][Parse]_vars

----------------------------------------------------------------------------
(* vocabulary of the properties *)

OutcomeNames == {"updated", "failed", "skipped_no_json", "skipped_no_timestamp"}

\* files the tree held when the script started
Present0 == {p \in Universe : Exists(fs0, p)}

\* lowercased extension in the image set or the video set
RecognisedExt(p) ==
    LowerExt(SplitExt(p.name).ext) \in (image_exts \cup video_exts)

Media0 == {p \in Present0 : RecognisedExt(p)}

OutcomesOf(p) == {i \in 1..Len(log) : log[i][1] = p}

CallsOn(p) == {i \in 1..Len(calls) : calls[i].path = p}

LoggedAs(o) == {i \in 1..Len(log) : log[i][2] = o}

\* neither <path>.json nor <path without extension>.json in the starting tree
NoSidecar0(p) ==
    /\ ~Exists(fs0, Path(p.dir, Append(p.name, "json")))
    /\ ~Exists(fs0, Path(p.dir, Append(SplitExt(p.name).root, "json")))

\* C1: when process_directory has finished, processed equals the sum of the
\* four outcome counters.
C1_CountersAddUp ==
    pc = "done" =>
        stats.processed = stats.updated + stats.failed
                            + stats.skipped_no_json + stats.skipped_no_timestamp

C1_Witness ==
    /\ pc = "done"
    /\ stats.updated >= 1
    /\ stats.failed >= 1
    /\ stats.processed >= 2

\* C2: a media file of the tree differs from its starting content only if
\* exactly one writer was invoked on that very file, with a timestamp that
\* parse_timestamp produced; no other file's processing changes it.
C2_OnlyOwnWriterMutates ==
    \A p \in Media0 :
        fs[p] # fs0[p] =>
            /\ Cardinality(CallsOn(p)) = 1
            /\ \A i \in CallsOn(p) : calls[i].dt.kind \in {"epoch", "iso"}

\* C3: every file with a recognised (lowercased) extension gets exactly one
\* of the four outcomes and one counter increment, every other file gets none
\* and is not counted in processed.
C3_ExactlyOneOutcome ==
    /\ \A i \in 1..Len(log) : log[i][2] \in OutcomeNames
    /\ \A o \in OutcomeNames : stats[o] = Cardinality(LoggedAs(o))
    /\ stats.processed = Len(log)
    /\ \A p \in Present0 :
         Cardinality(OutcomesOf(p)) <= (IF RecognisedExt(p) THEN 1 ELSE 0)
    /\ pc = "done" =>
         /\ \A p \in Media0 : Cardinality(OutcomesOf(p)) = 1
         /\ stats.processed = Cardinality(Media0)

C3_Witness ==
    /\ pc = "done"
    /\ Exists(fs0, B_jpg)
    /\ Exists(fs0, C_mov)
    /\ Exists(fs0, Dot_jpg)
    /\ Exists(fs0, N_txt)
    /\ stats.processed = 2

\* C4: at the end of the run a media file that had no sidecar under either
\* name is recorded as skipped_no_json and its content is what it was.
C4_NoSidecarUntouched ==
    pc = "done" =>
        \A p \in Media0 :
            NoSidecar0(p) =>
                /\ \E i \in OutcomesOf(p) : log[i][2] = "skipped_no_json"
                /\ fs[p] = fs0[p]

\* what normalisation gives for one value taken alone
ValueResult(v) ==
    LET r == Normalise(Unwrap(v), None)
    IN  IF r.ret THEN r.dt
        ELSE IF Truthy(r.timestamp) THEN ConvertEpoch(r.timestamp)
        ELSE NoneResult

\* the value is an ISO date-time or a nonzero number
Usable(v) ==
    LET r == Normalise(Unwrap(v), None) IN r.ret \/ Truthy(r.timestamp)

PresentKeys(m) == {i \in 1..Len(possible_keys) : m[possible_keys[i]] # Absent}

UsableKeys(m) == {i \in PresentKeys(m) : Usable(m[possible_keys[i]])}

Lowest(S) == CHOOSE i \in S : \A j \in S : i <= j

\* C5 as stated: the first present key alone decides the result.
C5_FirstPresentKeyDecides ==
    (parsed # Pending /\ json_data.kind = "map") =>
        parsed = IF PresentKeys(json_data.m) = {} THEN NoneResult
                 ELSE ValueResult(json_data.m[possible_keys[Lowest(PresentKeys(json_data.m))]])

\* C5 amended: the first key, in priority order, whose value is usable decides
\* the result; present keys with zero, falsy or unusable values are passed
\* over, and the result is none only when no present key is usable.
C5_FirstUsableKeyDecides ==
    (parsed # Pending /\ json_data.kind = "map") =>
        parsed = IF UsableKeys(json_data.m) = {} THEN NoneResult
                 ELSE ValueResult(json_data.m[possible_keys[Lowest(UsableKeys(json_data.m))]])

C5_Witness ==
    /\ parsed # Pending
    /\ json_data.kind = "map"
    /\ UsableKeys(json_data.m) # {}
    /\ Lowest(PresentKeys(json_data.m)) < Lowest(UsableKeys(json_data.m))
    /\ parsed.kind = "epoch"

ParsesOk(data) == data # Malformed

LacksAllKeys(data) ==
    CASE data.kind = "map" -> PresentKeys(data.m) = {}
      [] data.kind = "list" -> data.items \cap Keys = {}
      [] OTHER -> TRUE

Falsy(v) == v \in {JInt(BigZero), JBool(FALSE), JStr(<<>>), JNull}

OnlyFalsy(data) ==
    data.kind = "map" /\ \A i \in PresentKeys(data.m) : Falsy(data.m[possible_keys[i]])

\* C6: a media file whose sidecar parses and has none of the four keys, or
\* only falsy values under those it has, ends as skipped_no_timestamp and no
\* writer is invoked for it.
C6_NoTimestampIsSkipped ==
    \A i \in 1..Len(log) :
        LET p == log[i][1]
            json_path == get_metadata_file(fs0, p)
        IN  (/\ json_path # None
             /\ ParsesOk(fs0[json_path].data)
             /\ (LacksAllKeys(fs0[json_path].data) \/ OnlyFalsy(fs0[json_path].data)))
            => (log[i][2] = "skipped_no_timestamp" /\ CallsOn(p) = {})

\* C7: after a video writer invocation that returns false the original file
\* is as before and nothing exists at the temporary path.
C7_FailedVideoLeavesNothing ==
    \A i \in 1..Len(calls) :
        (calls[i].writer = "video" /\ ~calls[i].ok) =>
            /\ calls[i].file_after = calls[i].file_before
            /\ calls[i].temp_after = Missing

\* C8: once the script has ended: a missing target directory gives a nonzero
\* status and no processing, a missing ffmpeg gives a nonzero status and no
\* processing, and otherwise (piexif importable) the status is zero.
C8_ExitStatus ==
    pc \in {"exited", "done"} =>
        /\ ~env.dir => (exit_status # 0 /\ log = <<>> /\ fs = fs0)
        /\ ~env.ffmpeg => (exit_status # 0 /\ log = <<>> /\ fs = fs0)
        /\ (env.piexif /\ env.ffmpeg /\ env.dir) => exit_status = 0

AllVisited == \A p \in Media0 : Cardinality(OutcomesOf(p)) = 1

\* C9: once a file has ended as failed or skipped, the walk still visits
\* every remaining file and the run reaches its summary.
C9_FailuresDoNotHalt ==
    (Len(log) > 0 /\ log[Len(log)][2] # "updated") ~> (pc = "done" /\ AllVisited)

C9_Witness ==
    /\ pc = "done"
    /\ \E i, j \in 1..Len(log) :
         /\ i < j
         /\ log[i][2] = "failed"
         /\ log[j][2] \in {"updated", "skipped_no_json"}

\* the integer a value holds: directly, as text, or under a nested "timestamp"
IsIntegerValue(v) ==
    /\ Unwrap(v).t \in {"int", "str"}
    /\ ~Normalise(Unwrap(v), None).ret
    /\ Truthy(Normalise(Unwrap(v), None).timestamp)

IntegerOf(v) == Normalise(Unwrap(v), None).timestamp

====
